---- MODULE Spec2Model ----
(***************************************************************************)
(* Model of the syllabus extraction pipeline:                              *)
(*   - services/openai.js  extractAssignmentsFromSyllabus  (model invoker  *)
(*     with the 45 s timeout race, fallback model, response normalizer)    *)
(*   - backend/server.js   POST /api/parse-assignments (request            *)
(*     coordinator with the 10 s early-acknowledgment timer)               *)
(* One action is one macrotask of the Node event loop: a timer callback,   *)
(* a network completion or the arrival of a request, together with every   *)
(* microtask continuation (await resumption) it triggers.                  *)
(***************************************************************************)
EXTENDS Integers, Sequences, FiniteSets, TLC

VARIABLES now, apiKey, clients, handler, extraction, upload, prompt, page, uploader

vars == <<now, apiKey, clients, handler, extraction, upload, prompt, page, uploader>>

(***************************************************************************)
(* Bounds of the model and constants of the program.                       *)
(***************************************************************************)
\* granularity of the clock, in ms
TickMs == 5000
\* the clock stops here
MaxTime == 60000
\* a request arrives no later than this
MaxArrival == 5000
\* setTimeout(..., TIMEOUT_MS) of the model call
TIMEOUT_MS == 45000
\* setTimeout(..., 10000) of the early acknowledgment
ACK_MS == 10000

ReqIds == {1, 2}

(***************************************************************************)
(* JavaScript values, as far as the pipeline looks at them.  An object is  *)
(* the sequence of its <<key, value>> pairs in key order (keys distinct).  *)
(***************************************************************************)
Undefined == [k |-> "undefined"]
JNull == [k |-> "null"]
JNum(n) == [k |-> "num", n |-> n]
JStr(s) == [k |-> "str", s |-> s]
JArr(a) == [k |-> "arr", a |-> a]
JObj(p) == [k |-> "obj", p |-> p]
JBool(b) == [k |-> "bool", b |-> b]

\* length of the strings the model uses
StrLen(s) ==
  CASE s = "" -> 0
    [] s = "abc" -> 3
    [] s = "soon" -> 4
    [] s = "quiz" -> 4
    [] s = "bogus" -> 5
    [] s = "Quiz 2" -> 6
    [] s = "Essay" -> 5
    [] s = "2025-02-15" -> 10
    [] OTHER -> 8

\* ToBoolean
Truthy(v) ==
  CASE v.k = "undefined" -> FALSE
    [] v.k = "null" -> FALSE
    [] v.k = "num" -> v.n # 0
    [] v.k = "str" -> v.s # ""
    [] v.k = "bool" -> v.b
    [] OTHER -> TRUE

\* a property read of null or undefined raises a TypeError
CanRead(v) == v.k \notin {"undefined", "null"}

RECURSIVE Lookup(_, _, _)
Lookup(p, key, i) ==
  IF i > Len(p) THEN Undefined
  ELSE IF p[i][1] = key THEN p[i][2]
  ELSE Lookup(p, key, i + 1)

\* v[key] for a v that can be read
GetProp(v, key) ==
  CASE v.k = "obj" -> Lookup(v.p, key, 1)
    [] v.k = "arr" /\ key = "length" -> JNum(Len(v.a))
    [] v.k = "str" /\ key = "length" -> JNum(StrLen(v.s))
    [] OTHER -> Undefined

IsArray(v) == v.k = "arr"

\* completion of an evaluation: a value, or an exception
Ok(v) == [threw |-> FALSE, v |-> v]
Throw == [threw |-> TRUE, v |-> Undefined]

EmptyResult == JObj(<< <<"items", JArr(<<>>)>> >>)
Wrap(list) == JObj(<< <<"items", list>> >>)

(***************************************************************************)
(* Text.  The model's output text is a sequence of tokens: the fence       *)
(* "```", the tag "json", a line break, a blank, a piece of prose that is  *)
(* no JSON, and the compact serialisation of one JSON value.               *)
(***************************************************************************)
Fence == [t |-> "fence"]
TagJson == [t |-> "json"]
NL == [t |-> "nl"]
SP == [t |-> "sp"]
Prose == [t |-> "prose"]
Val(v) == [t |-> "value", v |-> v]

IsWhitespace(tok) == tok.t \in {"nl", "sp"}

\* String.prototype.length is 0
IsEmptyText(text) == Len(text) = 0

\* JSON.parse(text): leading and trailing whitespace is skipped, exactly one
\* value is accepted, anything else is a SyntaxError
JSONparse(text) ==
  LET rest == SelectSeq(text, LAMBDA tok : ~IsWhitespace(tok))
  IN IF Len(rest) = 1 /\ rest[1].t = "value" THEN Ok(rest[1].v) ELSE Throw

\* the positions <<i, j>> at which `open` \n ([\s\S]*) \n ``` matches: the
\* opening tokens start at i, and the closing \n``` starts at j
FenceMatches(text, open) ==
  { ij \in (1..Len(text)) \X (1..Len(text)) :
      /\ ij[1] + Len(open) <= Len(text)
      /\ \A d \in 1..Len(open) : text[ij[1] + d - 1] = open[d]
      /\ text[ij[1] + Len(open)] = NL
      /\ ij[2] > ij[1] + Len(open)
      /\ ij[2] + 1 <= Len(text)
      /\ text[ij[2]] = NL
      /\ text[ij[2] + 1] = Fence }

\* String.prototype.match of one of the two regular expressions: the leftmost
\* opening that has a closing, and (greedy) the last closing after it; the
\* result is capture group 1, or no match
RegexMatch(text, open) ==
  LET ms == FenceMatches(text, open)
  IN IF ms = {} THEN [matched |-> FALSE, group |-> <<>>]
     ELSE LET i == CHOOSE a \in {m[1] : m \in ms} : \A b \in {m[1] : m \in ms} : a <= b
              js == {m[2] : m \in {x \in ms : x[1] = i}}
              j == CHOOSE a \in js : \A b \in js : a >= b
          IN [matched |-> TRUE, group |-> SubSeq(text, i + Len(open) + 1, j - 1)]

\* content.match(/```json\n([\s\S]*)\n```/) || content.match(/```\n([\s\S]*)\n```/)
JsonMatch(content) ==
  LET m1 == RegexMatch(content, <<Fence, TagJson>>)
  IN IF m1.matched THEN m1 ELSE RegexMatch(content, <<Fence>>)

(***************************************************************************)
(* The response normalizer.                                                *)
(***************************************************************************)
\* Object.keys(parsed).find(key => Array.isArray(parsed[key]) &&
\*   parsed[key].length > 0 && parsed[key][0].title), from pair i on.
\* Only an object has keys whose value can be an array.
RECURSIVE FindArrayProp(_, _)
FindArrayProp(p, i) ==
  IF i > Len(p) THEN [threw |-> FALSE, found |-> FALSE, v |-> Undefined]
  ELSE LET v == p[i][2]
       IN IF IsArray(v) /\ Len(v.a) > 0
          THEN IF ~CanRead(v.a[1])
               THEN [threw |-> TRUE, found |-> FALSE, v |-> Undefined]
               ELSE IF Truthy(GetProp(v.a[1], "title"))
                    THEN [threw |-> FALSE, found |-> TRUE, v |-> v]
                    ELSE FindArrayProp(p, i + 1)
          ELSE FindArrayProp(p, i + 1)

OwnPairs(v) == IF v.k = "obj" THEN v.p ELSE <<>>

\* a variant that validates the records: those whose type is outside the
\* declared enum are dropped
ValidTypes == {"assignment", "quiz", "exam", "paper", "project"}
StructureParsedContent_Validating(parsedContent) ==
  IF ~CanRead(parsedContent) THEN Throw
  ELSE LET items == GetProp(parsedContent, "items")
       IN IF IsArray(items)
          THEN Ok(Wrap(JArr(SelectSeq(items.a,
                 LAMBDA rec : GetProp(rec, "type").k = "str"
                              /\ GetProp(rec, "type").s \in ValidTypes))))
          ELSE Ok(EmptyResult)

\* a variant that expects an object and does not wrap a bare array
StructureParsedContent_ObjectsOnly(parsedContent) ==
  IF ~CanRead(parsedContent) THEN Throw
  ELSE IF Truthy(GetProp(parsedContent, "items")) THEN Ok(parsedContent)
  ELSE LET possibleArrayProps == FindArrayProp(OwnPairs(parsedContent), 1)
       IN IF possibleArrayProps.threw THEN Throw
          ELSE IF possibleArrayProps.found THEN Ok(Wrap(possibleArrayProps.v))
          ELSE Ok(EmptyResult)

\* the structure logic applied to the directly parsed content
StructureParsedContent(parsedContent) ==
  IF ~CanRead(parsedContent) THEN Throw
  ELSE IF Truthy(GetProp(parsedContent, "items")) THEN Ok(parsedContent)
  ELSE IF IsArray(parsedContent) THEN Ok(Wrap(parsedContent))
  ELSE LET possibleArrayProps == FindArrayProp(OwnPairs(parsedContent), 1)
       IN IF possibleArrayProps.threw THEN Throw
          ELSE IF possibleArrayProps.found THEN Ok(Wrap(possibleArrayProps.v))
          ELSE Ok(EmptyResult)

\* a variant whose fenced-block branch keeps only the records of a declared type
StructureParsedJson_DeclaredTypes(parsedJson) ==
  IF ~CanRead(parsedJson) THEN Throw
  ELSE LET list == IF IsArray(parsedJson) THEN parsedJson
                   ELSE GetProp(parsedJson, "items")
       IN IF IsArray(list)
          THEN Ok(Wrap(JArr(SelectSeq(list.a,
                 LAMBDA rec : GetProp(rec, "type").k = "str"
                              /\ GetProp(rec, "type").s \in ValidTypes))))
          ELSE Ok(EmptyResult)

\* the same structure logic, applied to the JSON of a fenced block
StructureParsedJson(parsedJson) ==
  IF ~CanRead(parsedJson) THEN Throw
  ELSE IF Truthy(GetProp(parsedJson, "items")) THEN Ok(parsedJson)
  ELSE IF IsArray(parsedJson) THEN Ok(Wrap(parsedJson))
  ELSE LET possibleArrayProps == FindArrayProp(OwnPairs(parsedJson), 1)
       IN IF possibleArrayProps.threw THEN Throw
          ELSE IF possibleArrayProps.found THEN Ok(Wrap(possibleArrayProps.v))
          ELSE Ok(EmptyResult)

\* the catch branch of the direct parse: the fenced block
FromCodeBlock(content) ==
  LET jsonMatch == JsonMatch(content)
  IN IF jsonMatch.matched /\ ~IsEmptyText(jsonMatch.group)
     THEN LET parsed == JSONparse(jsonMatch.group)
              inner == IF parsed.threw THEN Throw ELSE StructureParsedJson(parsed.v)
          IN IF inner.threw THEN EmptyResult ELSE inner.v
     ELSE EmptyResult

\* a variant that parses the first JSON value found anywhere in the content
Assignments_FirstValue(content) ==
  LET values == SelectSeq(content, LAMBDA tok : tok.t = "value")
      direct == IF Len(values) = 0 THEN Throw ELSE StructureParsedContent(values[1].v)
  IN IF direct.threw THEN EmptyResult ELSE direct.v

\* let assignments; try { JSON.parse(content) ... } catch { code block ... }
Assignments(content) ==
  LET parsed == JSONparse(content)
      direct == IF parsed.threw THEN Throw ELSE StructureParsedContent(parsed.v)
  IN IF direct.threw THEN FromCodeBlock(content) ELSE direct.v

(***************************************************************************)
(* A model response: without usable choices, with a null message content,  *)
(* or with a text content.                                                 *)
(***************************************************************************)
NoChoices == [kind |-> "nochoices", content |-> <<>>]
NullContent == [kind |-> "nullcontent", content |-> <<>>]
TextResponse(text) == [kind |-> "text", content |-> text]

\* from the check of response.choices to `return assignments`, inside the
\* outer try: content.length of a null content raises a TypeError
NormalizeResponse(response) ==
  IF response.kind = "nochoices" THEN Ok(EmptyResult)
  ELSE IF response.kind = "nullcontent" THEN Throw
  ELSE Ok(Assignments(response.content))

\* a variant whose outer catch rethrows
OuterCatch_Rethrow(completion) == completion

\* the outer catch: return { items: [] } rather than throwing
OuterCatch(completion) ==
  IF completion.threw THEN Ok(EmptyResult) ELSE completion

\* what the promise of extractAssignmentsFromSyllabus settles to once a model
\* response is in
ExtractFromResponse(response) == OuterCatch(NormalizeResponse(response))

(***************************************************************************)
(* The model outputs the model checker draws from.                         *)
(***************************************************************************)
Quiz == JObj(<< <<"title", JStr("Quiz 2")>>, <<"type", JStr("quiz")>>,
                <<"due_date", JStr("2025-02-15")>> >>)
Essay == JObj(<< <<"title", JStr("Essay")>>, <<"type", JStr("bogus")>>,
                 <<"due_date", JStr("soon")>> >>)
Untitled == JObj(<< <<"title", JStr("")>>, <<"type", JStr("quiz")>> >>)

RecordLists == {<<>>, <<Quiz>>, <<Quiz, Essay>>, <<Essay, Quiz>>, <<Untitled>>}

\* {"items": L} for a list of records L
WellFormed == {Wrap(JArr(L)) : L \in RecordLists}
\* {"items": x} for an x that is no array
OddItems == {Wrap(x) : x \in {JStr("abc"), JStr(""), JNum(5), JNum(0), JNull, JObj(<<>>)}}
BareArrays == {JArr(L) : L \in RecordLists}
OtherKeys == {JObj(<< <<"assignments", JArr(<<Quiz>>)>> >>),
              JObj(<< <<"course", JStr("abc")>>, <<"assignments", JArr(<<Quiz, Essay>>)>> >>),
              JObj(<< <<"notes", JArr(<<JNull>>)>>, <<"assignments", JArr(<<Quiz>>)>> >>),
              JObj(<< <<"notes", JArr(<<JNum(5)>>)>>, <<"assignments", JArr(<<Quiz>>)>> >>),
              JObj(<< <<"assignments", JArr(<<Untitled>>)>> >>),
              JObj(<< <<"course", JStr("abc")>> >>)}
Scalars == {JNull, JNum(5), JStr("abc"), JBool(TRUE), JObj(<<>>)}

JsonValues == WellFormed \cup OddItems \cup BareArrays \cup OtherKeys \cup Scalars

Direct(v) == <<Val(v)>>
FencedJson(v) == <<Fence, TagJson, NL, Val(v), NL, Fence>>
FencedPlain(v) == <<Prose, NL, Fence, NL, Val(v), NL, Fence, NL, Prose>>

\* a fence on one line with its content; a blank between the tag and the line
\* break; blanks around the content inside the line breaks
FencedOneLine(v) == <<Fence, TagJson, SP, Val(v), SP, Fence>>
FencedTrailingBlank(v) == <<Fence, TagJson, SP, NL, Val(v), NL, Fence>>
FencedPadded(v) == <<Fence, TagJson, NL, SP, Val(v), SP, NL, Fence>>

FencedForms(v) ==
  {FencedJson(v), FencedPlain(v), FencedOneLine(v), FencedTrailingBlank(v), FencedPadded(v)}

FenceVariants ==
  UNION {{FencedOneLine(v), FencedTrailingBlank(v), FencedPadded(v)} :
           v \in {Wrap(JArr(<<Quiz>>)), JArr(<<Quiz, Essay>>)}}

Unparseable == {<<>>, <<Prose>>, <<Val(Wrap(JArr(<<Quiz>>))), Prose>>,
                <<Fence, TagJson, NL, Prose, NL, Fence>>,
                <<Fence, NL, NL, Fence>>,
                <<Fence, TagJson, SP, Val(Wrap(JArr(<<Quiz>>))), SP, Fence>>}

Texts == {Direct(v) : v \in JsonValues} \cup {FencedJson(v) : v \in JsonValues}
           \cup {FencedPlain(v) : v \in JsonValues} \cup Unparseable
           \cup FenceVariants

Responses == {NoChoices, NullContent} \cup {TextResponse(text) : text \in Texts}

\* request bodies: no text, an empty text, a text that is no string, a text
Bodies == {JObj(<<>>), JObj(<< <<"text", JStr("")>> >>), JObj(<< <<"text", JNum(5)>> >>),
           JObj(<< <<"text", JStr("syllabus")>> >>)}

(***************************************************************************)
(* extractAssignmentsFromSyllabus as a state machine.  `outcome` is the    *)
(* state of the promise the async function returned.                       *)
(***************************************************************************)
Pending == [state |-> "pending", v |-> Undefined]
Settled(completion) ==
  IF completion.threw THEN [state |-> "rejected", v |-> Undefined]
  ELSE [state |-> "fulfilled", v |-> completion.v]

NoResponse == [kind |-> "none", content |-> <<>>]

IdleExtraction ==
  [pc |-> "idle", timeout |-> "none", timeoutDue |-> 0, primary |-> "none",
   secondary |-> "none", requests |-> <<>>, received |-> NoResponse,
   latePrimary |-> NoResponse, lateSecondary |-> NoResponse, outcome |-> Pending]

\* a variant that creates the timeout before it looks for the API key
StartExtraction_TimeoutFirst(hasKey, t) ==
  IF ~hasKey
  THEN [IdleExtraction EXCEPT !.pc = "returned", !.timeout = "armed",
                              !.timeoutDue = t + TIMEOUT_MS,
                              !.outcome = Settled(OuterCatch(Throw))]
  ELSE [IdleExtraction EXCEPT !.pc = "awaitPrimary", !.timeout = "armed",
                              !.timeoutDue = t + TIMEOUT_MS, !.primary = "pending",
                              !.requests = <<"gpt-4o">>]

\* the call, up to its first await: without an API key an Error is thrown
\* inside the outer try before the timeout is created; with one, the 45 s
\* timeout is started and the request to the primary model is issued
StartExtraction(hasKey, t) ==
  IF ~hasKey
  THEN [IdleExtraction EXCEPT !.pc = "returned", !.outcome = Settled(OuterCatch(Throw))]
  ELSE [IdleExtraction EXCEPT !.pc = "awaitPrimary", !.timeout = "armed",
                              !.timeoutDue = t + TIMEOUT_MS, !.primary = "pending",
                              !.requests = <<"gpt-4o">>]

\* a variant that turns to the fallback model when the primary's response
\* has no usable choices
ResponseReceived_FallbackOnInvalid(e, response) ==
  IF response.kind = "nochoices" /\ Len(e.requests) = 1
  THEN [e EXCEPT !.pc = "awaitSecondary", !.secondary = "pending",
                 !.requests = Append(@, "gpt-3.5-turbo")]
  ELSE [e EXCEPT !.pc = "returned", !.received = response,
                 !.outcome = Settled(ExtractFromResponse(response))]

\* a response won the race of the current await
ResponseReceived(e, response) ==
  [e EXCEPT !.pc = "returned", !.received = response,
            !.outcome = Settled(ExtractFromResponse(response))]

\* a variant that retries the primary model before the fallback model
TryFallback_RetryBoth(e) ==
  [e EXCEPT !.pc = "awaitSecondary", !.secondary = "pending",
            !.requests = @ \o <<"gpt-4o", "gpt-3.5-turbo">>]

\* the catch of the primary: the request to the fallback model is issued and
\* raced against the same timeoutPromise
TryFallback(e) ==
  [e EXCEPT !.pc = "awaitSecondary", !.secondary = "pending",
            !.requests = Append(@, "gpt-3.5-turbo")]

\* the catch of the fallback: return { items: [] }
BothFailed(e) ==
  [e EXCEPT !.pc = "returned", !.outcome = Settled(Ok(EmptyResult))]

\* what a model call that was abandoned settles to later: an error, or a
\* well-formed response
LateAnswers ==
  {NoResponse, TextResponse(Direct(Wrap(JArr(<<Quiz>>)))),
   TextResponse(Direct(Wrap(JArr(<<Quiz, Essay>>))))}

\* a variant in which the late answer of the primary model replaces the result
PrimaryAbandoned_AnswerUsed(e, answer) ==
  [e EXCEPT !.primary = "late", !.latePrimary = answer,
            !.outcome = IF answer = NoResponse THEN @
                        ELSE Settled(ExtractFromResponse(answer))]

\* gpt4Promise settles after its race was lost: nothing awaits it any more
PrimaryAbandoned(e, answer) ==
  [e EXCEPT !.primary = "late", !.latePrimary = answer]

\* gpt35Promise settles after its race was lost: nothing awaits it any more
SecondaryAbandoned(e, answer) ==
  [e EXCEPT !.secondary = "late", !.lateSecondary = answer]

\* a variant that gives the fallback request a timeout of its own
TimeoutRejects_FreshTimeout(e) ==
  CASE e.pc = "awaitPrimary" ->
         [e EXCEPT !.pc = "awaitSecondary", !.secondary = "pending",
                   !.requests = Append(@, "gpt-3.5-turbo"),
                   !.timeoutDue = @ + TIMEOUT_MS]
    [] e.pc = "awaitSecondary" ->
         [e EXCEPT !.timeout = "fired", !.pc = "returned",
                   !.outcome = Settled(Ok(EmptyResult))]
    [] OTHER -> [e EXCEPT !.timeout = "fired"]

\* the 45 s timer's callback rejects timeoutPromise.  A race that is being
\* awaited rejects; a race entered afterwards finds the promise already
\* rejected and rejects before the fallback request can settle.
TimeoutRejects(e) ==
  LET fired == [e EXCEPT !.timeout = "fired"]
  IN CASE e.pc = "awaitPrimary" -> BothFailed(TryFallback(fired))
       [] e.pc = "awaitSecondary" -> BothFailed(fired)
       [] OTHER -> fired

(***************************************************************************)
(* The handler of POST /api/parse-assignments.                             *)
(***************************************************************************)
IdleHandler ==
  [pc |-> "idle", body |-> Undefined, hasResponded |-> FALSE, timeoutId |-> "none",
   ackDue |-> 0, sent |-> <<>>, loggedLate |-> FALSE]

\* res.status(status).json(...)
Send(h, status, assignments) ==
  [h EXCEPT !.sent = Append(@, [status |-> status, assignments |-> assignments])]

\* a variant that leaves the timer running
ClearTimeout_Forgotten(h) == h

\* clearTimeout(timeoutId)
ClearTimeout(h) ==
  IF h.timeoutId = "armed" THEN [h EXCEPT !.timeoutId = "cleared"] ELSE h

ProcessingItems ==
  JObj(<< <<"processing", JBool(TRUE)>>,
          <<"items", JArr(<< JObj(<< <<"title", JStr("Processing Assignment Data")>>,
                                     <<"type", JStr("info")>> >>) >>)>> >>)

NoAssignmentsFound ==
  Wrap(JArr(<< JObj(<< <<"title", JStr("No assignments found")>>,
                       <<"type", JStr("info")>> >>) >>))

\* a variant whose timer callback forgets to set hasResponded
OnAckTimeout_FlagNotSet(h) ==
  Send([h EXCEPT !.timeoutId = "fired"], 202, ProcessingItems)

\* the callback of the 10 s timer
OnAckTimeout(h) ==
  LET f == [h EXCEPT !.timeoutId = "fired"]
  IN IF ~f.hasResponded
     THEN Send([f EXCEPT !.hasResponded = TRUE], 202, ProcessingItems)
     ELSE f

\* a variant whose catch answers without looking at hasResponded
CatchAiError_Unguarded(h) ==
  Send([ClearTimeout(h) EXCEPT !.hasResponded = TRUE], 500, Undefined)

\* a variant whose catch only logs the error
CatchAiError_LogOnly(h) == ClearTimeout(h)

\* catch (aiError)
CatchAiError(h) ==
  LET c == ClearTimeout(h)
  IN IF ~c.hasResponded
     THEN Send([c EXCEPT !.hasResponded = TRUE], 500, Undefined)
     ELSE c

\* assignments.items ? assignments.items.length : 0
AssignmentCount(assignments) ==
  IF Truthy(GetProp(assignments, "items"))
  THEN GetProp(GetProp(assignments, "items"), "length")
  ELSE JNum(0)

\* `assignments = { items: [ ... ] }`: assignments is declared const, the
\* assignment raises a TypeError
SubstituteInfoItem(assignments) == Throw

\* a variant that answers without looking at hasResponded
OnExtracted_Unguarded(h, assignments) ==
  LET c == ClearTimeout(h)
      shown == IF AssignmentCount(assignments) = JNum(0)
               THEN SubstituteInfoItem(assignments)
               ELSE Ok(assignments)
  IN IF shown.threw THEN CatchAiError(c)
     ELSE Send([c EXCEPT !.hasResponded = TRUE], 200, shown.v)

\* the try block after `await extractAssignmentsFromSyllabus(text)`
OnExtracted(h, assignments) ==
  LET c == ClearTimeout(h)
  IN IF ~c.hasResponded
     THEN LET shown == IF AssignmentCount(assignments) = JNum(0)
                       THEN SubstituteInfoItem(assignments)
                       ELSE Ok(assignments)
          IN IF shown.threw THEN CatchAiError(c)
             ELSE Send([c EXCEPT !.hasResponded = TRUE], 200, shown.v)
     ELSE [c EXCEPT !.loggedLate = TRUE]

\* the handler resumes when the promise of the extraction settles
Resume(h, outcome) ==
  LET r == IF outcome.state = "rejected" THEN CatchAiError(h)
           ELSE OnExtracted(h, outcome.v)
  IN [r EXCEPT !.pc = "done"]

\* a variant that only tests that the text is present
InvalidText_PresenceOnly(text) == ~Truthy(text)

\* !text || typeof text !== 'string'
InvalidText(text) == ~Truthy(text) \/ text.k # "str"

(***************************************************************************)
(* POST /api/extract-text: the multer middleware upload.single('syllabus'), *)
(* the handler, and the error handling middleware.                         *)
(***************************************************************************)
\* parseInt(process.env.MAX_FILE_SIZE || 15), in MB
MAX_FILE_SIZE_MB == 15

PdfType == "application/pdf"
DocxType == "application/vnd.openxmlformats-officedocument.wordprocessingml.document"

\* a multipart body without a file part
NoFile == [field |-> "none", mimetype |-> "none", size |-> 0]

\* the file parts the model checker draws from (size in MB)
Files ==
  [field : {"syllabus", "avatar"}, mimetype : {PdfType, DocxType, "image/png", "text/plain"},
   size : {1, 16}]

ExtractedTexts == {"", "Quiz 2 due Feb 15", "Syllabus"}

\* extractor: the state of the promise of extractTextFromPdf / extractTextFromDocx
IdleUpload == [pc |-> "idle", file |-> NoFile, extractor |-> "none", sent |-> <<>>]

\* res.status(status).json({ error }) or res.status(200).json({ ..., text })
Reply(u, status, error, text) ==
  [u EXCEPT !.pc = "done",
            !.sent = Append(@, [status |-> status, error |-> error, text |-> text])]

\* cb(null, true), or cb(new Error(...))
fileFilter(file) == file.mimetype = PdfType \/ file.mimetype = DocxType

\* what upload.single('syllabus') hands on: the next handler with req.file
\* (or without one), or an error for next(err)
UploadSingle(file) ==
  IF file = NoFile THEN [error |-> "", hasFile |-> FALSE]
  ELSE IF file.field # "syllabus" THEN [error |-> "Unexpected field", hasFile |-> FALSE]
  ELSE IF ~fileFilter(file)
       THEN [error |-> "Only PDF and DOCX files are allowed", hasFile |-> FALSE]
  ELSE IF file.size > MAX_FILE_SIZE_MB THEN [error |-> "File too large", hasFile |-> FALSE]
  ELSE [error |-> "", hasFile |-> TRUE]

\* the error handling middleware
ErrorMiddleware(u, message) == Reply(u, 500, message, "")

\* the handler, up to its first await
ExtractTextHandler(u, hasFile) ==
  IF ~hasFile THEN Reply(u, 400, "No file uploaded", "")
  ELSE IF u.file.mimetype = PdfType \/ u.file.mimetype = DocxType
       THEN [u EXCEPT !.pc = "parsing", !.extractor = "pending"]
       ELSE Reply(u, 400, "Unsupported file type", "")

\* extractTextFromPdf / extractTextFromDocx rethrow a failure of the library
ExtractionError(mimetype) ==
  IF mimetype = PdfType THEN "Failed to extract text from PDF"
  ELSE "Failed to extract text from DOCX"

\* an upload arrives: the middleware, then the handler or the error middleware
UploadArrives(r, file) ==
  /\ r \in clients
  /\ upload[r].pc = "idle"
  /\ LET passed == UploadSingle(file)
         u == [upload[r] EXCEPT !.file = file]
     IN upload' = [upload EXCEPT ![r] =
                     IF passed.error # "" THEN ErrorMiddleware(u, passed.error)
                     ELSE ExtractTextHandler(u, passed.hasFile)]
  /\ UNCHANGED <<now, apiKey, clients, handler, extraction, prompt, page, uploader>>

\* pdfParse or mammoth returns the text
TextExtracted(r, text) ==
  /\ upload[r].pc = "parsing"
  /\ upload' = [upload EXCEPT ![r] = Reply([@ EXCEPT !.extractor = "fulfilled"], 200, "", text)]
  /\ UNCHANGED <<now, apiKey, clients, handler, extraction, prompt, page, uploader>>

\* a variant whose catch answers with an empty text
TextExtractionFails_Swallowed(r) ==
  /\ upload[r].pc = "parsing"
  /\ upload' = [upload EXCEPT ![r] = Reply([@ EXCEPT !.extractor = "rejected"], 200, "", "")]
  /\ UNCHANGED <<now, apiKey, clients, handler, extraction, prompt, page, uploader>>

\* pdfParse or mammoth fails: the handler's catch answers 500
TextExtractionFails(r) ==
  /\ upload[r].pc = "parsing"
  /\ upload' = [upload EXCEPT ![r] =
                  Reply([@ EXCEPT !.extractor = "rejected"], 500,
                        ExtractionError(@.file.mimetype), "")]
  /\ UNCHANGED <<now, apiKey, clients, handler, extraction, prompt, page, uploader>>

(***************************************************************************)
(* The client.  `page` is the state of the Home page together with the     *)
(* position of its parseAssignments call; `uploader` is the state of the   *)
(* FileUpload component together with its handleUpload invocations.        *)
(***************************************************************************)
CLIENT_TIMEOUT_MS == 60000

TimedOutMessage == JStr("Request timed out. The server took too long to respond. Please try again.")
FailedMessage == JStr("Failed to fetch")

\* captured: the value of isParsingAssignments in the render whose
\* parseAssignments is running
IdlePage ==
  [uploadResult |-> JNull, extractedText |-> JNull, assignments |-> JNull,
   isParsingAssignments |-> FALSE, error |-> JNull, activeStep |-> 1,
   pc |-> "idle", captured |-> FALSE, timeout |-> "none", timeoutDue |-> 0]

handleUploadSuccess(p, data) ==
  [p EXCEPT !.uploadResult = data, !.extractedText = GetProp(data, "text"),
            !.assignments = JNull, !.error = JNull, !.activeStep = 2]

handleUploadError(p, errorMessage) ==
  [p EXCEPT !.error = errorMessage, !.uploadResult = JNull, !.extractedText = JNull,
            !.assignments = JNull, !.activeStep = 1]

\* the "Extract Assignments with AI" button is rendered and enabled
ParseButtonEnabled(p) ==
  p.activeStep = 2 /\ Truthy(p.uploadResult) /\ Truthy(p.extractedText)
    /\ ~p.isParsingAssignments

\* parseAssignments up to its first await, called at time t
StartParse(p, t) ==
  IF ~Truthy(p.extractedText) THEN p
  ELSE [p EXCEPT !.isParsingAssignments = TRUE, !.error = JNull,
                 !.captured = p.isParsingAssignments,
                 !.timeout = "armed", !.timeoutDue = t + CLIENT_TIMEOUT_MS,
                 !.pc = "proxyFetch"]

\* a variant whose timer callback reads the current state
OnClientTimeout_CurrentState(p) ==
  LET f == [p EXCEPT !.timeout = "fired"]
  IN IF p.isParsingAssignments
     THEN [f EXCEPT !.error = TimedOutMessage, !.isParsingAssignments = FALSE]
     ELSE f

\* the callback of the 60 s timer: isParsingAssignments is the constant of the
\* render in which parseAssignments was created
OnClientTimeout(p) ==
  LET f == [p EXCEPT !.timeout = "fired"]
  IN IF p.captured
     THEN [f EXCEPT !.error = TimedOutMessage, !.isParsingAssignments = FALSE]
     ELSE f

ClearClientTimeout(p) ==
  IF p.timeout = "armed" THEN [p EXCEPT !.timeout = "cleared"] ELSE p

\* the data of an ok response was read, via the proxy or directly
ParseSucceeded(p, data) ==
  [ClearClientTimeout(p) EXCEPT !.assignments = GetProp(data, "assignments"),
                                !.activeStep = 3, !.isParsingAssignments = FALSE,
                                !.pc = "done"]

\* the outer catch and the finally
ParseFailed(p, message) ==
  [ClearClientTimeout(p) EXCEPT !.error = message, !.isParsingAssignments = FALSE,
                                !.pc = "done"]

\* the direct connection is tried after the proxy attempt failed
TryDirect(p) == [p EXCEPT !.pc = "directFetch"]

\* the invocations of handleUpload the model follows
CallIds == {1, 2}

\* an invocation of handleUpload: its position and the number of times it
\* has called each of the two callbacks
IdleCall == [pc |-> "idle", onUploadSuccess |-> 0, onUploadError |-> 0]

IdleUploader ==
  [files |-> <<>>, isUploading |-> FALSE, uploadError |-> JNull,
   calls |-> [i \in CallIds |-> IdleCall]]

\* the bodies of the 200 responses of /api/extract-text
UploadData ==
  {JObj(<< <<"filename", JStr("syllabus.pdf")>>, <<"mimeType", JStr(PdfType)>>,
           <<"text", JStr(text)>> >>) : text \in ExtractedTexts}

\* handleUpload with a file, up to its first await
StartUpload(u, i) ==
  [u EXCEPT !.isUploading = TRUE, !.uploadError = JNull, !.calls[i].pc = "health"]

\* a variant without the return after the proxy's data was handed on
AfterSuccess_NoReturn(c, viaProxy) ==
  [c EXCEPT !.onUploadSuccess = @ + 1,
            !.pc = IF viaProxy THEN "directPost" ELSE "done"]

\* the invocation after `if (onUploadSuccess) onUploadSuccess(data)`
AfterSuccess(c, viaProxy) == [c EXCEPT !.onUploadSuccess = @ + 1, !.pc = "done"]

\* setIsUploading(false); setFiles([]); onUploadSuccess(data)
UploadSucceeded(u, i, viaProxy) ==
  [u EXCEPT !.isUploading = FALSE, !.files = <<>>,
            !.calls[i] = AfterSuccess(@, viaProxy)]

\* the outer catch
UploadFailed(u, i, message) ==
  [u EXCEPT !.isUploading = FALSE, !.uploadError = message,
            !.calls[i].onUploadError = @ + 1, !.calls[i].pc = "done"]

\* the proxy attempt is over without data: the direct URL is tried
TryDirectUpload(u, i) == [u EXCEPT !.calls[i].pc = "directPost"]

(***************************************************************************)
(* Actions.                                                                *)
(***************************************************************************)
\* the extraction of request r moves to e; the handler resumes if it returned
Advance(r, e) ==
  /\ extraction' = [extraction EXCEPT ![r] = e]
  /\ handler' = [handler EXCEPT ![r] =
                   IF e.pc = "returned" /\ extraction[r].pc # "returned"
                   THEN Resume(@, e.outcome) ELSE @]

\* a request arrives and is handled up to its first await
Arrive(r, body) ==
  /\ r \in clients
  /\ handler[r].pc = "idle"
  /\ now <= MaxArrival
  /\ UNCHANGED <<now, apiKey, clients, upload, prompt, page, uploader>>
  /\ IF InvalidText(GetProp(body, "text"))
     THEN /\ handler' = [handler EXCEPT ![r] =
                           [Send(@, 400, Undefined) EXCEPT !.pc = "done", !.body = body]]
          /\ UNCHANGED extraction
     ELSE LET h == [handler[r] EXCEPT !.pc = "extracting", !.body = body,
                                      !.timeoutId = "armed", !.ackDue = now + ACK_MS]
              e == StartExtraction(apiKey, now)
          IN /\ extraction' = [extraction EXCEPT ![r] = e]
             /\ handler' = [handler EXCEPT ![r] =
                              IF e.pc = "returned" THEN Resume(h, e.outcome) ELSE h]

\* a variant in which the requests share one answered-flag
AckTimerFires_SharedFlag(r) ==
  /\ handler[r].timeoutId = "armed"
  /\ now >= handler[r].ackDue
  /\ handler' = [handler EXCEPT ![r] =
                   IF \E q \in ReqIds : handler[q].hasResponded
                   THEN [@ EXCEPT !.timeoutId = "fired"]
                   ELSE OnAckTimeout(@)]
  /\ UNCHANGED <<now, apiKey, clients, extraction, upload, prompt, page, uploader>>

\* the 10 s timer of request r fires
AckTimerFires(r) ==
  /\ handler[r].timeoutId = "armed"
  /\ now >= handler[r].ackDue
  /\ handler' = [handler EXCEPT ![r] = OnAckTimeout(@)]
  /\ UNCHANGED <<now, apiKey, clients, extraction, upload, prompt, page, uploader>>

\* the 45 s timer of request r fires
TimeoutFires(r) ==
  /\ extraction[r].timeout = "armed"
  /\ now >= extraction[r].timeoutDue
  /\ Advance(r, TimeoutRejects(extraction[r]))
  /\ UNCHANGED <<now, apiKey, clients, upload, prompt, page, uploader>>

\* the primary model answers while it is awaited
PrimaryResolves(r, response) ==
  /\ extraction[r].pc = "awaitPrimary"
  /\ Advance(r, ResponseReceived([extraction[r] EXCEPT !.primary = "resolved"], response))
  /\ UNCHANGED <<now, apiKey, clients, upload, prompt, page, uploader>>

\* the primary model call fails while it is awaited
PrimaryRejects(r) ==
  /\ extraction[r].pc = "awaitPrimary"
  /\ Advance(r, TryFallback([extraction[r] EXCEPT !.primary = "rejected"]))
  /\ UNCHANGED <<now, apiKey, clients, upload, prompt, page, uploader>>

\* the primary model call settles after it was abandoned
PrimarySettlesLate(r, answer) ==
  /\ extraction[r].primary = "pending"
  /\ extraction[r].pc # "awaitPrimary"
  /\ Advance(r, PrimaryAbandoned(extraction[r], answer))
  /\ UNCHANGED <<now, apiKey, clients, upload, prompt, page, uploader>>

\* the fallback model answers while it is awaited
SecondaryResolves(r, response) ==
  /\ extraction[r].pc = "awaitSecondary"
  /\ Advance(r, ResponseReceived([extraction[r] EXCEPT !.secondary = "resolved"], response))
  /\ UNCHANGED <<now, apiKey, clients, upload, prompt, page, uploader>>

\* the fallback model call fails while it is awaited
SecondaryRejects(r) ==
  /\ extraction[r].pc = "awaitSecondary"
  /\ Advance(r, BothFailed([extraction[r] EXCEPT !.secondary = "rejected"]))
  /\ UNCHANGED <<now, apiKey, clients, upload, prompt, page, uploader>>

\* the fallback model call settles after it was abandoned
SecondarySettlesLate(r, answer) ==
  /\ extraction[r].secondary = "pending"
  /\ extraction[r].pc # "awaitSecondary"
  /\ Advance(r, SecondaryAbandoned(extraction[r], answer))
  /\ UNCHANGED <<now, apiKey, clients, upload, prompt, page, uploader>>

\* the prompt of a call that has not been made
IdlePrompt == [pc |-> "idle", syllabusText |-> <<>>, truncatedText |-> <<>>]

\* a timer that is due runs before the clock moves on
TimerDue ==
  \/ \E r \in ReqIds :
       \/ handler[r].timeoutId = "armed" /\ now >= handler[r].ackDue
       \/ extraction[r].timeout = "armed" /\ now >= extraction[r].timeoutDue
  \/ page.timeout = "armed" /\ now >= page.timeoutDue

\* the due times of the armed timers
ArmedTimers ==
  {handler[r].ackDue : r \in {q \in ReqIds : handler[q].timeoutId = "armed"}}
    \cup {extraction[r].timeoutDue : r \in {q \in ReqIds : extraction[q].timeout = "armed"}}
    \cup (IF page.timeout = "armed" THEN {page.timeoutDue} ELSE {})

\* time passes, up to the next armed timer's due time at most
Tick ==
  /\ now < MaxTime
  /\ ~TimerDue
  /\ LET t == now + TickMs
         due == {d \in ArmedTimers : d < t}
     IN now' = IF due = {} THEN t ELSE CHOOSE d \in due : \A o \in due : d <= o
  /\ UNCHANGED <<apiKey, clients, handler, extraction, upload, prompt, page, uploader>>

Init ==
  /\ now = 0
  /\ apiKey \in BOOLEAN
  /\ clients = {1}
  /\ handler = [r \in ReqIds |-> IdleHandler]
  /\ extraction = [r \in ReqIds |-> IdleExtraction]
  /\ upload = [r \in ReqIds |-> IdleUpload]
  /\ prompt = IdlePrompt
  /\ page = IdlePage
  /\ uploader = IdleUploader

Next ==
  \/ Tick
  \/ \E r \in ReqIds :
       \/ \E body \in Bodies : Arrive(r, body)
       \/ AckTimerFires(r)
       \/ TimeoutFires(r)
       \/ \E response \in Responses : PrimaryResolves(r, response)
       \/ PrimaryRejects(r)
       \/ \E answer \in LateAnswers : PrimarySettlesLate(r, answer)
       \/ \E response \in Responses : SecondaryResolves(r, response)
       \/ SecondaryRejects(r)
       \/ \E answer \in LateAnswers : SecondarySettlesLate(r, answer)

Spec == Init /\ [][Next]_vars

\* timers fire and time passes
Fairness ==
  /\ WF_vars(Tick)
  /\ \A r \in ReqIds : WF_vars(AckTimerFires(r)) /\ WF_vars(TimeoutFires(r))

FairSpec == Spec /\ Fairness

(***************************************************************************)
(* Properties.                                                             *)
(***************************************************************************)
Statuses(r) == [i \in 1..Len(handler[r].sent) |-> handler[r].sent[i].status]

\* the extraction of request r settled while the 10 s timer was still armed
FinishedBeforeAck(r) == handler[r].pc = "done" /\ handler[r].timeoutId = "cleared"

\* C1: the response of a request is written at most once, whatever the order
\* of the 10 s timer, the completion of the extraction and an exception
C1_AtMostOneResponse == \A r \in ReqIds : Len(handler[r].sent) <= 1

\* the 202 was sent and the extraction completed afterwards
C1_Witness ==
  \E r \in ReqIds :
    /\ handler[r].pc = "done"
    /\ handler[r].timeoutId = "fired"
    /\ extraction[r].received.kind = "text"
    /\ Statuses(r) = <<202>>

\* C2: every request that arrived is eventually answered, when timers fire
C2_EventuallyAnswered ==
  \A r \in ReqIds : (handler[r].pc # "idle") ~> (Len(handler[r].sent) >= 1)

\* a request is answered while neither model call has settled
C2_Witness ==
  \E r \in ReqIds :
    /\ extraction[r].primary = "pending"
    /\ extraction[r].secondary = "pending"
    /\ Len(handler[r].sent) = 1

\* C3: the value extractAssignmentsFromSyllabus returns has an `items` field
\* that is an array, for every model output
C3_ItemsIsArray ==
  \A r \in ReqIds :
    extraction[r].outcome.state = "fulfilled"
      => IsArray(GetProp(extraction[r].outcome.v, "items"))

\* C4: an extraction that finishes before the 10 s timer fires is answered
\* with exactly one 200, whatever its result; once the timer has fired first
\* the request is answered with exactly one 202
C4_OneOkOrOneAccepted ==
  \A r \in ReqIds :
    /\ FinishedBeforeAck(r) => Statuses(r) = <<200>>
    /\ handler[r].timeoutId = "fired" => Statuses(r) = <<202>>

\* C5: a result with zero items that arrives before any response was sent
\* is answered with 200 and the single synthetic "No assignments found" record
C5_InfoItemSubstituted ==
  \A r \in ReqIds :
    ( /\ FinishedBeforeAck(r)
      /\ extraction[r].outcome.state = "fulfilled"
      /\ AssignmentCount(extraction[r].outcome.v) = JNum(0) )
      => handler[r].sent = <<[status |-> 200, assignments |-> NoAssignmentsFound]>>

\* both model calls failed, or the model's text could not be parsed
UpstreamFailure(e) ==
  /\ e.pc = "returned"
  /\ \/ Len(e.requests) = 2 /\ e.received = NoResponse
     \/ e.received.kind = "text" /\ e.received.content \in Unparseable

\* C6: a failure of the upstream model is never answered with 500
C6_UpstreamFailureNot500 ==
  \A r \in ReqIds :
    UpstreamFailure(extraction[r])
      => \A i \in 1..Len(handler[r].sent) : handler[r].sent[i].status # 500

\* C7: the promise of extractAssignmentsFromSyllabus never rejects; it is
\* fulfilled once the function has returned, and with { items: [] } when both
\* model calls failed
C7_NeverRejects ==
  \A r \in ReqIds :
    LET e == extraction[r]
    IN /\ e.outcome.state # "rejected"
       /\ e.pc = "returned" => e.outcome.state = "fulfilled"
       /\ (e.pc = "returned" /\ Len(e.requests) = 2 /\ e.received = NoResponse)
            => e.outcome = [state |-> "fulfilled", v |-> JObj(<< <<"items", JArr(<<>>)>> >>)]

\* a response whose message content is null was received and absorbed
C7_Witness ==
  \E r \in ReqIds :
    /\ extraction[r].received = NullContent
    /\ extraction[r].outcome.state = "fulfilled"

\* the texts that parse neither directly nor from a fenced block
NoJson == {<<>>, <<Prose>>, <<Val(Wrap(JArr(<<Quiz>>))), Prose>>,
           <<Fence, TagJson, NL, Prose, NL, Fence>>,
           <<Fence, NL, NL, Fence>>}

\* C8: an empty text, or one that parses neither directly nor from a fenced
\* block, is normalized to exactly { items: [] }
C8_UnparseableIsEmpty ==
  \A r \in ReqIds :
    LET e == extraction[r]
    IN (e.received.kind = "text" /\ e.received.content \in NoJson)
         => e.outcome = [state |-> "fulfilled", v |-> JObj(<< <<"items", JArr(<<>>)>> >>)]

\* a JSON text followed by prose was received from the model
C8_Witness ==
  \E r \in ReqIds :
    /\ extraction[r].received = TextResponse(<<Val(Wrap(JArr(<<Quiz>>))), Prose>>)
    /\ extraction[r].pc = "returned"

\* the primary call errored, or the timeout fired before it settled
PrimaryFailed(e) ==
  \/ e.primary \in {"rejected", "late"}
  \/ e.primary = "pending" /\ e.timeout = "fired"

\* C9: at most two model requests per call: one to the primary and, exactly
\* when the primary errored or timed out, one to the fallback; when the
\* fallback fails too the result is { items: [] }
C9_AtMostTwoRequests ==
  \A r \in ReqIds :
    LET e == extraction[r]
    IN /\ Len(e.requests) <= 2
       /\ \A i \in 1..Len(e.requests) : e.requests[i] = <<"gpt-4o", "gpt-3.5-turbo">>[i]
       /\ Len(e.requests) = 2 <=> PrimaryFailed(e)
       /\ (e.pc = "returned" /\ Len(e.requests) = 2 /\ e.received = NoResponse)
            => GetProp(e.outcome.v, "items") = JArr(<<>>)

\* both model calls errored
C9_Witness ==
  \E r \in ReqIds :
    /\ extraction[r].primary = "rejected"
    /\ extraction[r].secondary = "rejected"
    /\ extraction[r].pc = "returned"
    /\ Len(extraction[r].requests) = 2

\* C10: a model output {"items": L} with L a list of records is normalized
\* to a result whose items are L: same records, same order
C10_ItemsRoundTrip ==
  \A r \in ReqIds : \A L \in RecordLists :
    extraction[r].received = TextResponse(Direct(Wrap(JArr(L))))
      => /\ extraction[r].outcome.state = "fulfilled"
         /\ GetProp(extraction[r].outcome.v, "items") = JArr(L)

\* a list of two records, one of them with an unknown type, came back
C10_Witness ==
  \E r \in ReqIds :
    /\ extraction[r].received = TextResponse(Direct(Wrap(JArr(<<Essay, Quiz>>))))
    /\ GetProp(extraction[r].outcome.v, "items") = JArr(<<Essay, Quiz>>)

\* C11: a model output that is a bare JSON array A of records is normalized
\* to { items: A }, with the elements and the order of A
C11_BareArrayWrapped ==
  \A r \in ReqIds : \A L \in RecordLists :
    extraction[r].received = TextResponse(Direct(JArr(L)))
      => extraction[r].outcome =
           [state |-> "fulfilled", v |-> JObj(<< <<"items", JArr(L)>> >>)]

\* a bare array of two records came back as the items
C11_Witness ==
  \E r \in ReqIds :
    /\ extraction[r].received = TextResponse(Direct(JArr(<<Quiz, Essay>>)))
    /\ extraction[r].outcome.v = JObj(<< <<"items", JArr(<<Quiz, Essay>>)>> >>)

\* C12: a JSON text J inside a fenced block (with or without the json tag,
\* with or without prose around it, whatever blank or line break follows the
\* opening fence and precedes the closing one) is normalized like J alone
C12_FencedLikeUnfenced ==
  \A r \in ReqIds : \A v \in JsonValues : \A text \in FencedForms(v) :
    extraction[r].received = TextResponse(text)
      => extraction[r].outcome =
           [state |-> "fulfilled", v |-> Assignments(Direct(v))]

\* C13: when the 10 s timer fires before the extraction has finished, the
\* 202 placeholder is sent and the extraction is left running; it still
\* completes, and its result is only logged, never written to the response
C13_AckLeavesExtractionRunning ==
  /\ [][\A r \in ReqIds :
          (handler[r].timeoutId = "armed" /\ handler'[r].timeoutId = "fired")
            => /\ extraction[r].pc \in {"awaitPrimary", "awaitSecondary"}
               /\ extraction'[r] = extraction[r]
               /\ handler'[r].sent = <<[status |-> 202, assignments |-> ProcessingItems]>>]_vars
  /\ [](\A r \in ReqIds :
          handler[r].timeoutId = "fired"
            => /\ Statuses(r) = <<202>>
               /\ handler[r].pc = "done" <=> handler[r].loggedLate)
  /\ \A r \in ReqIds :
       (handler[r].timeoutId = "fired")
         ~> (extraction[r].outcome.state = "fulfilled" /\ handler[r].loggedLate)

\* after the 202 the fallback model answered with records, which were logged
C13_Witness ==
  \E r \in ReqIds :
    /\ handler[r].timeoutId = "fired"
    /\ handler[r].loggedLate
    /\ extraction[r].secondary = "resolved"
    /\ GetProp(extraction[r].outcome.v, "items") = JArr(<<Quiz, Essay>>)
    /\ Statuses(r) = <<202>>

\* C14: a request whose body has no text, an empty text or a text that is
\* no string is answered with 400 and nothing else: the 10 s timer is not
\* started and no model request is issued
C14_InvalidTextRejected ==
  \A r \in ReqIds :
    ( /\ handler[r].pc # "idle"
      /\ handler[r].body \in {JObj(<<>>), JObj(<< <<"text", JStr("")>> >>),
                              JObj(<< <<"text", JNum(5)>> >>)} )
      => /\ handler[r].sent = <<[status |-> 400, assignments |-> Undefined]>>
         /\ handler[r].pc = "done"
         /\ handler[r].timeoutId = "none"
         /\ extraction[r].requests = <<>>
         /\ extraction[r].timeout = "none"
         /\ extraction[r].pc = "idle"

\* a body whose text is a number was answered, and time has passed since
C14_Witness ==
  \E r \in ReqIds :
    /\ handler[r].body = JObj(<< <<"text", JNum(5)>> >>)
    /\ Statuses(r) = <<400>>
    /\ now >= ACK_MS + MaxArrival

\* C23: an extraction that settles before the 10 s timer fires cancels the
\* timer; the timer's callback does not run afterwards and no 202 follows the
\* 200 or 500 the request was answered with
C23_TimerCancelledOnCompletion ==
  /\ [](\A r \in ReqIds :
          (handler[r].pc = "done" /\ Statuses(r) \in {<<200>>, <<500>>})
            => handler[r].timeoutId = "cleared")
  /\ [][\A r \in ReqIds :
          handler[r].timeoutId = "cleared" => handler'[r] = handler[r]]_vars
  /\ [](\A r \in ReqIds : \A i, j \in 1..Len(handler[r].sent) :
          Statuses(r)[i] \in {200, 500} => Statuses(r)[j] # 202)

\* a request answered with 200, seen after the time its 10 s timer was due
C23_Witness ==
  \E r \in ReqIds :
    /\ Statuses(r) = <<200>>
    /\ handler[r].timeoutId = "cleared"
    /\ now > handler[r].ackDue

\* an exception was raised in the try block around the extraction of request
\* r: the awaited promise rejected, or the statement after it threw
RaisedInExtractionBranch(r) ==
  \/ extraction[r].outcome.state = "rejected"
  \/ /\ extraction[r].outcome.state = "fulfilled"
     /\ AssignmentCount(extraction[r].outcome.v) = JNum(0)
     /\ SubstituteInfoItem(extraction[r].outcome.v).threw

\* C24: an exception raised in the extraction branch before any response was
\* sent is answered with 500; where the 202 has been sent, the catch of an
\* exception only logs it and writes nothing more to the response
C24_ExceptionAnsweredOnce ==
  \A r \in ReqIds :
    /\ (FinishedBeforeAck(r) /\ RaisedInExtractionBranch(r)) => Statuses(r) = <<500>>
    /\ Statuses(r) = <<202>>
         => /\ CatchAiError(handler[r]).sent = handler[r].sent
            /\ CatchAiError(handler[r]).hasResponded

\* the statement after the await threw before the timer fired: 500
C24_Witness ==
  \E r \in ReqIds :
    /\ FinishedBeforeAck(r)
    /\ extraction[r].received.kind = "text"
    /\ RaisedInExtractionBranch(r)
    /\ Statuses(r) = <<500>>

\* C26: without an API key the function issues no model request, starts no
\* 45 s timeout and returns { items: [] }
C26_NoKeyNoRequests ==
  \A r \in ReqIds :
    (~apiKey /\ extraction[r].pc # "idle")
      => /\ extraction[r].requests = <<>>
         /\ extraction[r].primary = "none" /\ extraction[r].secondary = "none"
         /\ extraction[r].timeout = "none"
         /\ extraction[r].outcome = [state |-> "fulfilled", v |-> JObj(<< <<"items", JArr(<<>>)>> >>)]

\* the function was called without a key, and time has passed since
C26_Witness ==
  \E r \in ReqIds :
    /\ ~apiKey
    /\ extraction[r].pc = "returned"
    /\ now > handler[r].ackDue

(***************************************************************************)
(* Two concurrent requests to POST /api/parse-assignments.                 *)
(***************************************************************************)
ConcurrentBodies == {JObj(<<>>), JObj(<< <<"text", JStr("syllabus")>> >>)}
ConcurrentResponses == {NoChoices, TextResponse(Direct(Wrap(JArr(<<Quiz>>))))}

ConcurrentInit ==
  /\ now = 0
  /\ apiKey = TRUE
  /\ clients = ReqIds
  /\ handler = [r \in ReqIds |-> IdleHandler]
  /\ extraction = [r \in ReqIds |-> IdleExtraction]
  /\ upload = [r \in ReqIds |-> IdleUpload]
  /\ prompt = IdlePrompt
  /\ page = IdlePage
  /\ uploader = IdleUploader

ConcurrentNext ==
  \/ Tick
  \/ \E r \in ReqIds :
       \/ \E body \in ConcurrentBodies : Arrive(r, body)
       \/ AckTimerFires(r)
       \/ TimeoutFires(r)
       \/ \E response \in ConcurrentResponses : PrimaryResolves(r, response)
       \/ PrimaryRejects(r)
       \/ PrimarySettlesLate(r, NoResponse)
       \/ \E response \in ConcurrentResponses : SecondaryResolves(r, response)
       \/ SecondaryRejects(r)
       \/ SecondarySettlesLate(r, NoResponse)

ConcurrentSpec == ConcurrentInit /\ [][ConcurrentNext]_vars

\* the statuses a request is answered with, read off its own body, its own
\* 10 s timer and the result of its own extraction
OwnStatuses(h, e) ==
  IF h.pc = "idle" THEN <<>>
  ELSE IF InvalidText(GetProp(h.body, "text")) THEN <<400>>
  ELSE IF h.timeoutId = "fired" THEN <<202>>
  ELSE IF h.timeoutId = "armed" THEN <<>>
  ELSE IF e.outcome.state = "fulfilled" /\ AssignmentCount(e.outcome.v) # JNum(0)
       THEN <<200>>
       ELSE <<500>>

\* C25: concurrent requests are independent: a step acts on one request and
\* leaves the other's handler and extraction as they are, and the statuses of
\* each request are those its own timer and extraction determine
C25_RequestsIndependent ==
  /\ [][\A r, q \in ReqIds :
          (r # q /\ (handler'[r] # handler[r] \/ extraction'[r] # extraction[r]))
            => (handler'[q] = handler[q] /\ extraction'[q] = extraction[q])]_vars
  /\ [](\A r \in ReqIds : Statuses(r) = OwnStatuses(handler[r], extraction[r]))

\* one request got its 202 while the other, which arrived later, was answered
\* with 200 before its own timer was due
C25_Witness ==
  \E r, q \in ReqIds :
    /\ Statuses(r) = <<202>>
    /\ Statuses(q) = <<200>>
    /\ handler[q].ackDue > handler[r].ackDue
    /\ handler[r].pc = "extracting"

(***************************************************************************)
(* The document text embedded in the prompt.  A string is the sequence of  *)
(* its UTF-16 code units, which is what length and substring count.        *)
(***************************************************************************)
\* the length ceiling
MAX_LENGTH == 15000
\* input lengths range over the ceiling plus or minus MaxExcess, each in
\* Fills different fillings
MaxExcess == 10
Fills == 5

Marker ==
  << ".", ".", ".", " ", "[", "t", "e", "x", "t", " ", "t", "r", "u", "n",
     "c", "a", "t", "e", "d", " ", "f", "o", "r", " ", "t", "o", "k", "e",
     "n", " ", "l", "i", "m", "i", "t", "]" >>

Alphabet == <<"a", "b", " ", "1", "\n">>

\* a syllabus text of n code units
SyllabusText(n, fill) == [i \in 1..n |-> Alphabet[((i + fill) % Len(Alphabet)) + 1]]

SyllabusTexts ==
  {SyllabusText(n, fill) : n \in (MAX_LENGTH - MaxExcess)..(MAX_LENGTH + MaxExcess),
                           fill \in 1..Fills}

\* a variant that truncates from the ceiling on
TruncatedText_FromCeiling(syllabusText) ==
  IF Len(syllabusText) >= MAX_LENGTH
  THEN SubSeq(syllabusText, 1, MAX_LENGTH) \o Marker
  ELSE syllabusText

\* const truncatedText = syllabusText.length > MAX_LENGTH ? ... : syllabusText
TruncatedText(syllabusText) ==
  IF Len(syllabusText) > MAX_LENGTH
  THEN SubSeq(syllabusText, 1, MAX_LENGTH) \o Marker
  ELSE syllabusText

\* the function is called with a text and builds its prompt
BuildPrompt(syllabusText) ==
  /\ prompt.pc = "idle"
  /\ prompt' = [pc |-> "built", syllabusText |-> syllabusText,
                truncatedText |-> TruncatedText(syllabusText)]
  /\ UNCHANGED <<now, apiKey, clients, handler, extraction, upload, page, uploader>>

PromptInit ==
  /\ now = 0
  /\ apiKey = TRUE
  /\ clients = {}
  /\ handler = [r \in ReqIds |-> IdleHandler]
  /\ extraction = [r \in ReqIds |-> IdleExtraction]
  /\ upload = [r \in ReqIds |-> IdleUpload]
  /\ prompt = IdlePrompt
  /\ page = IdlePage
  /\ uploader = IdleUploader

PromptNext == \E syllabusText \in SyllabusTexts : BuildPrompt(syllabusText)

PromptSpec == PromptInit /\ [][PromptNext]_vars

\* C22: the text embedded in the prompt is the input when the input has at
\* most 15,000 characters, and otherwise the input's first 15,000 characters
\* followed by the truncation marker
C22_TruncatedAtCeiling ==
  prompt.pc = "built" =>
    LET input == prompt.syllabusText
        embedded == prompt.truncatedText
    IN IF Len(input) <= MAX_LENGTH
       THEN embedded = input
       ELSE /\ Len(embedded) = MAX_LENGTH + Len(Marker)
            /\ \A i \in 1..MAX_LENGTH : embedded[i] = input[i]
            /\ \A j \in 1..Len(Marker) : embedded[MAX_LENGTH + j] = Marker[j]

\* a text of exactly 15,000 characters was embedded as it is
C22_Witness ==
  /\ prompt.pc = "built"
  /\ Len(prompt.syllabusText) = MAX_LENGTH
  /\ prompt.truncatedText = prompt.syllabusText

(***************************************************************************)
(* The specification of POST /api/extract-text, for two uploads.           *)
(***************************************************************************)
UploadInit ==
  /\ now = 0
  /\ apiKey = TRUE
  /\ clients = ReqIds
  /\ handler = [r \in ReqIds |-> IdleHandler]
  /\ extraction = [r \in ReqIds |-> IdleExtraction]
  /\ upload = [r \in ReqIds |-> IdleUpload]
  /\ prompt = IdlePrompt
  /\ page = IdlePage
  /\ uploader = IdleUploader

UploadNext ==
  \E r \in ReqIds :
    \/ \E file \in Files \cup {NoFile} : UploadArrives(r, file)
    \/ \E text \in ExtractedTexts : TextExtracted(r, text)
    \/ TextExtractionFails(r)

UploadSpec == UploadInit /\ [][UploadNext]_vars

UploadStatuses(r) == [i \in 1..Len(upload[r].sent) |-> upload[r].sent[i].status]

\* C15: an upload whose content type is neither PDF nor DOCX is answered
\* with status 400
C15_UnsupportedTypeIs400 ==
  \A r \in ReqIds :
    ( /\ upload[r].pc = "done"
      /\ upload[r].file # NoFile
      /\ upload[r].file.field = "syllabus"
      /\ upload[r].file.mimetype \notin {PdfType, DocxType} )
      => UploadStatuses(r) = <<400>>

\* the primary call was abandoned because the 45 s timeout fired
PrimaryTimedOut(e) == e.timeout = "fired" /\ e.primary \in {"pending", "late"}

\* C16: when the primary call was abandoned at the timeout and the fallback
\* call then returns a well-formed {"items": L}, the function returns L
C16_FallbackAnswerUsed ==
  \A r \in ReqIds : \A L \in {<<Quiz>>, <<Quiz, Essay>>} :
    ( /\ PrimaryTimedOut(extraction[r])
      /\ extraction[r].secondary = "late"
      /\ extraction[r].lateSecondary = TextResponse(Direct(Wrap(JArr(L)))) )
      => GetProp(extraction[r].outcome.v, "items") = JArr(L)

\* C17: the function stops waiting no later than 45 s after it created its
\* timeout: once that one timeout has fired it has returned, even when
\* neither model call ever settles
C17_WaitBoundedBy45s ==
  \A r \in ReqIds :
    extraction[r].timeout # "none"
      => /\ extraction[r].timeout = "fired" => extraction[r].pc = "returned"
         /\ now > (handler[r].ackDue - ACK_MS) + TIMEOUT_MS
              => extraction[r].outcome.state = "fulfilled"

\* the timeout fired with both model calls still pending
C17_Witness ==
  \E r \in ReqIds :
    /\ extraction[r].timeout = "fired"
    /\ extraction[r].primary = "pending"
    /\ extraction[r].secondary = "pending"
    /\ extraction[r].pc = "returned"
    /\ now = extraction[r].timeoutDue

\* C18: the fallback model is contacted only after the primary errored or
\* timed out; a primary that answers in time is the only request of the call
C18_FallbackOnlyAfterFailure ==
  \A r \in ReqIds :
    LET e == extraction[r]
    IN /\ e.primary = "resolved" => e.requests = <<"gpt-4o">> /\ e.secondary = "none"
       /\ e.secondary # "none" => PrimaryFailed(e)

\* the primary answered without choices, and the 45 s have passed since
C18_Witness ==
  \E r \in ReqIds :
    /\ extraction[r].primary = "resolved"
    /\ extraction[r].received = NoChoices
    /\ extraction[r].timeout = "fired"
    /\ Len(extraction[r].requests) = 1

\* C19: a response of the primary model that arrives after the timeout has
\* fired is discarded: it is not the result and does not change it
C19_LatePrimaryDiscarded ==
  /\ [][\A r \in ReqIds :
          (extraction[r].primary = "pending" /\ extraction'[r].primary = "late")
            => /\ extraction'[r].outcome = extraction[r].outcome
               /\ extraction'[r].received = extraction[r].received
               /\ handler'[r] = handler[r]]_vars
  /\ [](\A r \in ReqIds :
          extraction[r].primary = "late"
            => /\ extraction[r].received = NoResponse
               /\ extraction[r].outcome.state = "fulfilled"
               /\ GetProp(extraction[r].outcome.v, "items") = JArr(<<>>))

\* the primary answered with a record after it was abandoned
C19_Witness ==
  \E r \in ReqIds :
    /\ extraction[r].primary = "late"
    /\ extraction[r].latePrimary = TextResponse(Direct(Wrap(JArr(<<Quiz>>))))
    /\ extraction[r].pc = "returned"

\* x is an object with a field named key
HasField(x, key) == x.k = "obj" /\ \E i \in 1..Len(x.p) : x.p[i][1] = key

\* the fields, in key order, whose value is a non-empty array whose first
\* element has a title field
RecordFields(obj) ==
  SelectSeq(obj.p, LAMBDA pair : /\ IsArray(pair[2])
                                 /\ Len(pair[2].a) > 0
                                 /\ HasField(pair[2].a[1], "title"))

\* C20: for a parsed object without items the record list is the first field,
\* in key order, whose value is a non-empty array whose first element has a
\* title field, whatever the earlier fields and the title's value are
C20_FirstRecordFieldUsed ==
  \A r \in ReqIds : \A obj \in OtherKeys :
    ( /\ extraction[r].received = TextResponse(Direct(obj))
      /\ Len(RecordFields(obj)) > 0 )
      => GetProp(extraction[r].outcome.v, "items") = RecordFields(obj)[1][2]

\* record lists holding a record whose type is outside the declared enum and
\* whose due_date is not YYYY-MM-DD
ListsWithMalformed == {L \in RecordLists : \E i \in 1..Len(L) : L[i] = Essay}

\* the shapes in which the model may deliver a record list L
Shapes(L) == {Wrap(JArr(L)), JArr(L),
              JObj(<< <<"course", JStr("abc")>>, <<"assignments", JArr(L)>> >>)}

\* C21: the records of the result are the records the model produced: a
\* malformed due_date or an undeclared type passes through unchanged and no
\* record is dropped for it, in whatever shape and fencing the list came
C21_NoFieldValidation ==
  \A r \in ReqIds : \A L \in ListsWithMalformed : \A v \in Shapes(L) :
    extraction[r].received
        \in {TextResponse(t) : t \in {Direct(v), FencedJson(v), FencedPlain(v)}}
      => GetProp(extraction[r].outcome.v, "items") = JArr(L)

\* a fenced list opening with a malformed record came back whole
C21_Witness ==
  \E r \in ReqIds :
    /\ extraction[r].received = TextResponse(FencedJson(Wrap(JArr(<<Essay, Quiz>>))))
    /\ GetProp(extraction[r].outcome.v, "items") = JArr(<<Essay, Quiz>>)

\* the text extractors settle
FairUploadSpec == UploadSpec /\ WF_vars(UploadNext)

\* the upload of request r got past the multer middleware to the handler
ReachedHandler(r) == upload[r].pc # "idle" /\ UploadSingle(upload[r].file).error = ""

\* C27: an upload that reaches the handler gets exactly one response: 400
\* without a file, 500 with an error message when the text extractor failed,
\* and 200 with the extracted text otherwise
C27_ExtractTextAnsweredOnce ==
  /\ [](\A r \in ReqIds :
          ReachedHandler(r)
            => /\ Len(upload[r].sent) <= 1
               /\ upload[r].file = NoFile => UploadStatuses(r) = <<400>>
               /\ upload[r].extractor = "rejected"
                    => /\ UploadStatuses(r) = <<500>>
                       /\ upload[r].sent[1].error # ""
               /\ upload[r].extractor = "fulfilled"
                    => /\ UploadStatuses(r) = <<200>>
                       /\ upload[r].sent[1].text \in ExtractedTexts)
  /\ \A r \in ReqIds : ReachedHandler(r) ~> (Len(upload[r].sent) = 1)

\* a DOCX upload whose extractor failed was answered with 500
C27_Witness ==
  \E r \in ReqIds :
    /\ ReachedHandler(r)
    /\ upload[r].file.mimetype = DocxType
    /\ upload[r].extractor = "rejected"
    /\ UploadStatuses(r) = <<500>>

(***************************************************************************)
(* The client's actions and specification.                                 *)
(***************************************************************************)
Outcomes == {"ok", "notok", "rejected"}

\* the bodies of the ok responses of /api/parse-assignments
ParseData ==
  {JObj(<< <<"assignments", Wrap(JArr(<<Quiz>>))>> >>),
   JObj(<< <<"assignments", ProcessingItems>> >>)}

\* handleUpload is invoked with a dropped or selected file
Invoke(i) ==
  /\ page.activeStep = 1
  /\ uploader.calls[i].pc = "idle"
  /\ uploader' = StartUpload([uploader EXCEPT !.files = <<"syllabus.pdf">>], i)
  /\ UNCHANGED <<now, apiKey, clients, handler, extraction, upload, prompt, page>>

\* the health check settles; a rejection is turned into { ok: false }
HealthSettles(i, outcome) ==
  /\ uploader.calls[i].pc = "health"
  /\ uploader' = IF outcome = "ok" THEN [uploader EXCEPT !.calls[i].pc = "proxyPost"]
                 ELSE TryDirectUpload(uploader, i)
  /\ UNCHANGED <<now, apiKey, clients, handler, extraction, upload, prompt, page>>

\* the upload through the proxy settles
ProxyPostSettles(i, outcome) ==
  /\ uploader.calls[i].pc = "proxyPost"
  /\ uploader' = IF outcome = "ok" THEN [uploader EXCEPT !.calls[i].pc = "proxyJson"]
                 ELSE TryDirectUpload(uploader, i)
  /\ UNCHANGED <<now, apiKey, clients, handler, extraction, upload, prompt, page>>

\* response.json() of the proxy's response returns data
ProxyJsonParsed(i, data) ==
  /\ uploader.calls[i].pc = "proxyJson"
  /\ uploader' = UploadSucceeded(uploader, i, TRUE)
  /\ page' = handleUploadSuccess(page, data)
  /\ UNCHANGED <<now, apiKey, clients, handler, extraction, upload, prompt>>

\* response.json() of the proxy's response fails: the inner catch
ProxyJsonFails(i) ==
  /\ uploader.calls[i].pc = "proxyJson"
  /\ uploader' = TryDirectUpload(uploader, i)
  /\ UNCHANGED <<now, apiKey, clients, handler, extraction, upload, prompt, page>>

\* the upload to the direct URL settles
DirectPostSettles(i, outcome) ==
  /\ uploader.calls[i].pc = "directPost"
  /\ IF outcome = "rejected"
     THEN /\ uploader' = UploadFailed(uploader, i, FailedMessage)
          /\ page' = handleUploadError(page, FailedMessage)
     ELSE /\ uploader' = [uploader EXCEPT !.calls[i].pc =
                            IF outcome = "ok" THEN "directJson" ELSE "directErrorJson"]
          /\ UNCHANGED page
  /\ UNCHANGED <<now, apiKey, clients, handler, extraction, upload, prompt>>

\* response.json() of the direct response returns data
DirectJsonParsed(i, data) ==
  /\ uploader.calls[i].pc = "directJson"
  /\ uploader' = UploadSucceeded(uploader, i, FALSE)
  /\ page' = handleUploadSuccess(page, data)
  /\ UNCHANGED <<now, apiKey, clients, handler, extraction, upload, prompt>>

\* response.json() of the direct response fails, or the error body of a
\* response that is not ok was read (or could not be read): an Error is thrown
DirectFails(i, message) ==
  /\ uploader.calls[i].pc \in {"directJson", "directErrorJson"}
  /\ uploader' = UploadFailed(uploader, i, message)
  /\ page' = handleUploadError(page, message)
  /\ UNCHANGED <<now, apiKey, clients, handler, extraction, upload, prompt>>

\* a click on the "Extract Assignments with AI" button
ClickParse ==
  /\ ParseButtonEnabled(page)
  /\ page.pc \in {"idle", "done"}
  /\ now <= MaxArrival
  /\ page' = StartParse(page, now)
  /\ UNCHANGED <<now, apiKey, clients, handler, extraction, upload, prompt, uploader>>

\* the 60 s timer of parseAssignments fires
ClientTimeoutFires ==
  /\ page.timeout = "armed"
  /\ now >= page.timeoutDue
  /\ page' = OnClientTimeout(page)
  /\ UNCHANGED <<now, apiKey, clients, handler, extraction, upload, prompt, uploader>>

\* the request through the proxy, or to the direct URL, settles
ParseFetchSettles(outcome) ==
  /\ page.pc \in {"proxyFetch", "directFetch"}
  /\ page' = IF outcome = "ok"
             THEN [page EXCEPT !.pc = IF @ = "proxyFetch" THEN "proxyJson" ELSE "directJson"]
             ELSE IF page.pc = "proxyFetch" THEN TryDirect(page)
             ELSE IF outcome = "notok" THEN [page EXCEPT !.pc = "directErrorJson"]
             ELSE ParseFailed(page, FailedMessage)
  /\ UNCHANGED <<now, apiKey, clients, handler, extraction, upload, prompt, uploader>>

\* response.json() of an ok response returns data
ParseJsonParsed(data) ==
  /\ page.pc \in {"proxyJson", "directJson"}
  /\ page' = ParseSucceeded(page, data)
  /\ UNCHANGED <<now, apiKey, clients, handler, extraction, upload, prompt, uploader>>

\* response.json() fails: via the proxy the inner catch and the direct
\* attempt, directly the outer catch; so does the error of a response that
\* is not ok
ParseJsonFails(message) ==
  /\ page.pc \in {"proxyJson", "directJson", "directErrorJson"}
  /\ page' = IF page.pc = "proxyJson" THEN TryDirect(page) ELSE ParseFailed(page, message)
  /\ UNCHANGED <<now, apiKey, clients, handler, extraction, upload, prompt, uploader>>

ClientInit ==
  /\ now = 0
  /\ apiKey = TRUE
  /\ clients = {}
  /\ handler = [r \in ReqIds |-> IdleHandler]
  /\ extraction = [r \in ReqIds |-> IdleExtraction]
  /\ upload = [r \in ReqIds |-> IdleUpload]
  /\ prompt = IdlePrompt
  /\ page = IdlePage
  /\ uploader = IdleUploader

ClientNext ==
  \/ Tick
  \/ \E i \in CallIds :
       \/ Invoke(i)
       \/ \E outcome \in Outcomes : HealthSettles(i, outcome)
       \/ \E outcome \in Outcomes : ProxyPostSettles(i, outcome)
       \/ \E data \in UploadData : ProxyJsonParsed(i, data)
       \/ ProxyJsonFails(i)
       \/ \E outcome \in Outcomes : DirectPostSettles(i, outcome)
       \/ \E data \in UploadData : DirectJsonParsed(i, data)
       \/ \E message \in {FailedMessage, JStr("Only PDF and DOCX files are allowed")} :
            DirectFails(i, message)
  \/ ClickParse
  \/ ClientTimeoutFires
  \/ \E outcome \in Outcomes : ParseFetchSettles(outcome)
  \/ \E data \in ParseData : ParseJsonParsed(data)
  \/ ParseJsonFails(FailedMessage)

ClientSpec == ClientInit /\ [][ClientNext]_vars

\* no response of the server has reached the running parseAssignments call
ServerSilent(p) == p.pc \in {"proxyFetch", "directFetch"}

\* C28: when the server has not responded 60 s after parseAssignments
\* started, the client's timeout sets the "Request timed out" error and
\* clears the parsing-in-progress flag
C28_ClientTimeoutReported ==
  [][(page.timeout = "armed" /\ page'.timeout = "fired" /\ ServerSilent(page))
       => (page'.error = TimedOutMessage /\ ~page'.isParsingAssignments)]_vars

\* C29: an invocation of handleUpload with a file ends with exactly one call
\* of onUploadSuccess or onUploadError, and the step that ends it leaves the
\* uploading flag false, whatever the proxy and direct attempts do
C29_ExactlyOneCallback ==
  /\ [](\A i \in CallIds :
          LET c == uploader.calls[i]
          IN /\ c.onUploadSuccess + c.onUploadError <= 1
             /\ c.pc = "done" <=> c.onUploadSuccess + c.onUploadError = 1)
  /\ [][\A i \in CallIds :
          (uploader.calls[i].pc # "done" /\ uploader'.calls[i].pc = "done")
            => ~uploader'.isUploading]_vars

\* one invocation ended in onUploadError, and the next one, started
\* afterwards, got an ok response through the proxy and is still running
C29_Witness ==
  \E i, j \in CallIds :
    /\ uploader.calls[i].pc = "done"
    /\ uploader.calls[i].onUploadError = 1
    /\ uploader.calls[j].pc = "proxyJson"
    /\ uploader.isUploading
    /\ page.error = FailedMessage

====
